---- MODULE Spec2Model ----
(***************************************************************************)
(* Model of GenericInstrumentConnection (src/python3/                      *)
(* GenericInstrumentConnection.py): construction, write/query, the direct  *)
(* (tcpip) transfer, the gateway-framed (gpiboe) transfer, gateway reply   *)
(* parsing and the status gate.                                            *)
(*                                                                         *)
(* A Python str is a sequence of one-character strings; the fixed texts of *)
(* error messages are single elements of such a sequence.  Bytes on the    *)
(* wire are sequences of integers (ASCII codes).  An optional value (None  *)
(* or v) is the sequence <<>> or <<v>>.  A status list [code, text] is the *)
(* tuple <<code, text>>.                                                   *)
(***************************************************************************)
EXTENDS Integers, Sequences, FiniteSets, TLC

VARIABLES
    pc,         \* position of the client: "new", "idle", "failed", or a step of __TcpipTransfer
    self,       \* the constructed object's attributes (NoObject before/without construction)
    ctorError,  \* exception raised by __init__, "" if none
    op,         \* the call in progress or last finished: "write", "query", "" before the first
    command,    \* the message argument of that call, as given by the caller
    message,    \* the message after the terminator check, as handed to the transport
    phase,      \* which transfer runs: "direct", "W" (Write frame), "R" (Read frame)
    tmsg,       \* __TcpipTransfer's message parameter
    tread,      \* __TcpipTransfer's read_response parameter
    recv_msg,   \* __TcpipTransfer's accumulator
    peer,       \* "open", or "closed" once the peer has closed its side (recv returns b'')
    socks,      \* state of every socket created by the call: "open" or "closed"
    frames,     \* history: <<message, read_response>> of every __TcpipTransfer call of the call
    wire,       \* history: byte strings passed to sendall that were sent, in order
    received,   \* history: the bytes recv returned in the current transfer, in order
    tresult,    \* what the latest __TcpipTransfer produced, NoResult while it runs
    ack,        \* gpiboe_status parsed from the Write frame's acknowledgement, NoStatus if none
    gate,       \* the status handed to __HandleStatus, NoStatus if none
    outcome,    \* how the last call ended
    conc        \* two threads calling at once: their positions, handles and the sockets

vars == <<pc, self, ctorError, op, command, message, phase, tmsg, tread, recv_msg,
          peer, socks, frames, wire, received, tresult, ack, gate, outcome, conc>>

(***************************************************************************)
(* Bounds                                                                  *)
(***************************************************************************)
MaxCmd == 1         \* longest command given to write/query
MaxReply == 3       \* most bytes a peer sends on one connection
MaxText == 4        \* longest gateway reply handed to the parser on its own
MaxSockets == 3     \* most sockets two concurrent callers create

(***************************************************************************)
(* Program constants                                                       *)
(***************************************************************************)
DevicePort == 5025
MinGpibAddress == 1
MaxGpibAddress == 30
TransportFailure == -1

Terminator == "\n"
ErrPrefix == "[ERROR] during TCPIP transfer: "
IndexErrorText == "string index out of range"

NoObject == [connection_type |-> "", device_ip_address |-> <<>>, device_port |-> 0,
             device_gpib_address |-> <<>>, message_termination_character |-> ""]
NoStatus == <<>>
NoResult == [raised |-> FALSE, status |-> NoStatus]
Threads == {1, 2}
NoConc == [pcs |-> [t \in Threads |-> "idle"], op |-> [t \in Threads |-> ""],
           phase |-> [t \in Threads |-> ""], handle |-> [t \in Threads |-> 0],
           table |-> <<>>]
NoOutcome == [kind |-> "none", type |-> "", status |-> NoStatus, text |-> <<>>]

(***************************************************************************)
(* Inputs                                                                  *)
(***************************************************************************)
CmdChars == {"a", "\n"}
ReplyBytes == {10, 48, 49, 97, 124}      \* "\n", "0", "1", "a", "|"
Kinds == {<<>>, <<"tcpip">>, <<"gpiboe">>, <<"usb">>}
IpAddresses == {<<>>, <<"host">>}
GpibAddresses == {<<>>, <<0>>, <<1>>, <<30>>, <<31>>}
\* err.args of an exception raised by a socket operation
ExcArgs == {<<>>, <<"timed out">>}

SeqsUpTo(S, n) == UNION {[1..k -> S] : k \in 0..n}
Commands == SeqsUpTo(CmdChars, MaxCmd)

Last(s) == s[Len(s)]

(***************************************************************************)
(* str, bytes and int conversions                                          *)
(***************************************************************************)
Digits == <<"0", "1", "2", "3", "4", "5", "6", "7", "8", "9">>
DigitChars == {Digits[i] : i \in 1..10}
Whitespace == {" ", "\n", "\t", "\r"}

\* ASCII code of a character (str.encode on the characters used here)
Ord(c) ==
    CASE c = "\n" -> 10
      [] c = "|" -> 124
      [] c = "W" -> 87
      [] c = "R" -> 82
      [] c = "a" -> 97
      [] c \in DigitChars -> 47 + (CHOOSE i \in 1..10 : Digits[i] = c)

\* character of an ASCII code (bytes.decode)
Chr(b) ==
    CASE b = 10 -> "\n"
      [] b = 124 -> "|"
      [] b = 87 -> "W"
      [] b = 82 -> "R"
      [] b = 97 -> "a"
      [] b \in 48..57 -> Digits[b - 47]

Encode(s) == [i \in 1..Len(s) |-> Ord(s[i])]
Decode(bs) == [i \in 1..Len(bs) |-> Chr(bs[i])]

\* str(n) for an integer n
RECURSIVE NatToStr(_)
NatToStr(n) == IF n < 10 THEN <<Digits[n + 1]>>
               ELSE NatToStr(n \div 10) \o <<Digits[(n % 10) + 1]>>
IntToStr(n) == IF n < 0 THEN <<"-">> \o NatToStr(-n) ELSE NatToStr(n)

\* str(x) for an optional integer x (None or an int)
OptIntToStr(x) == IF x = <<>> THEN <<"None">> ELSE IntToStr(x[1])

RECURSIVE LStrip(_)
LStrip(s) == IF s # <<>> /\ s[1] \in Whitespace THEN LStrip(Tail(s)) ELSE s
RECURSIVE RStrip(_)
RStrip(s) == IF s # <<>> /\ Last(s) \in Whitespace THEN RStrip(SubSeq(s, 1, Len(s) - 1)) ELSE s

RECURSIVE DigitsVal(_)
DigitsVal(s) == IF s = <<>> THEN 0
                ELSE 10 * DigitsVal(SubSeq(s, 1, Len(s) - 1)) + (Ord(Last(s)) - 48)

\* int(s) for a str s: surrounding whitespace is ignored, an optional sign, then
\* one or more decimal digits; anything else raises ValueError (ok = FALSE)
PyInt(s) ==
    LET t == RStrip(LStrip(s))
        signed == t # <<>> /\ t[1] \in {"+", "-"}
        d == IF signed THEN Tail(t) ELSE t
        good == d # <<>> /\ \A i \in 1..Len(d) : d[i] \in DigitChars
    IN  IF ~good THEN [ok |-> FALSE, val |-> 0]
        ELSE [ok |-> TRUE,
              val |-> IF signed /\ t[1] = "-" THEN 0 - DigitsVal(d) ELSE DigitsVal(d)]

\* mutant of the split: message.split('|') without the limit, so that the second part
\* ends at the second '|'
SplitEveryBar(s) ==
    IF \E i \in 1..Len(s) : s[i] = "|"
    THEN LET k == CHOOSE i \in 1..Len(s) : s[i] = "|" /\ \A j \in 1..(i - 1) : s[j] # "|"
             rest == SubSeq(s, k + 1, Len(s))
         IN  IF \E i \in 1..Len(rest) : rest[i] = "|"
             THEN LET k2 == CHOOSE i \in 1..Len(rest) :
                                rest[i] = "|" /\ \A j \in 1..(i - 1) : rest[j] # "|"
                  IN  <<SubSeq(s, 1, k - 1), SubSeq(rest, 1, k2 - 1)>>
             ELSE <<SubSeq(s, 1, k - 1), rest>>
    ELSE <<s>>

\* message.split('|', 1): the parts before and after the first '|', or the whole
\* message as the only part when it holds no '|'
SplitFirstBar(s) ==
    IF \E i \in 1..Len(s) : s[i] = "|"
    THEN LET k == CHOOSE i \in 1..Len(s) : s[i] = "|" /\ \A j \in 1..(i - 1) : s[j] # "|"
         IN  <<SubSeq(s, 1, k - 1), SubSeq(s, k + 1, Len(s))>>
    ELSE <<s>>

\* mutant of __ParseGpiboeReceiveMessage: the text after the first '|' is dropped
ParseGpiboeReceiveMessageDroppingRemainder(m) ==
    LET parts == SplitFirstBar(m)
        n == PyInt(parts[1])
    IN  IF ~n.ok THEN [raised |-> TRUE, status |-> NoStatus]
        ELSE [raised |-> FALSE, status |-> <<n.val, <<>>>>]

\* __ParseGpiboeReceiveMessage: raised = TRUE when int() raises ValueError
ParseGpiboeReceiveMessage(m) ==
    LET parts == SplitFirstBar(m)
        n == PyInt(parts[1])
    IN  IF ~n.ok THEN [raised |-> TRUE, status |-> NoStatus]
        ELSE IF Len(parts) > 1 THEN [raised |-> FALSE, status |-> <<n.val, parts[2]>>]
        ELSE [raised |-> FALSE, status |-> <<n.val, <<>>>>]

\* __ValidateGpibAddress for an integer address
ValidateGpibAddress(a) == a >= MinGpibAddress /\ a <= MaxGpibAddress

\* mutant of the terminator check: the terminator is appended unconditionally
TerminateAlways(m, term) == m \o <<term>>

\* the terminator check of write and query (lines 59-60, 73-74) for a non-empty message
Terminate(m, term) == IF Last(m) # term THEN m \o <<term>> ELSE m

\* the text of the ConnectionError raised by __HandleStatus
ConnectionErrorText(st) == <<"ERROR: ">> \o IntToStr(st[1]) \o <<", ">> \o st[2]

\* mutant of __HandleStatus: a trailing terminator is stripped from the returned text
HandleStatusStripping(st) ==
    IF st[1] = 0
    THEN [kind |-> "return", type |-> "",
          status |-> <<st[1], IF st[2] # <<>> /\ Last(st[2]) = Terminator
                              THEN SubSeq(st[2], 1, Len(st[2]) - 1) ELSE st[2]>>,
          text |-> <<>>]
    ELSE [kind |-> "raise", type |-> "ConnectionError", status |-> NoStatus,
          text |-> ConnectionErrorText(st)]

\* __HandleStatus: the call's outcome for a status list
HandleStatus(st) ==
    IF st[1] = 0
    THEN [kind |-> "return", type |-> "", status |-> st, text |-> <<>>]
    ELSE [kind |-> "raise", type |-> "ConnectionError", status |-> NoStatus,
          text |-> ConnectionErrorText(st)]

\* a call ended by an exception other than the gate's ConnectionError
Raised(type, text) == [kind |-> "raise", type |-> type, status |-> NoStatus, text |-> text]

(***************************************************************************)
(* Initial state: nothing constructed yet                                  *)
(***************************************************************************)
Init ==
    /\ pc = "new"
    /\ self = NoObject
    /\ ctorError = ""
    /\ op = ""
    /\ command = <<>>
    /\ message = <<>>
    /\ phase = ""
    /\ tmsg = <<>>
    /\ tread = FALSE
    /\ recv_msg = <<>>
    /\ peer = "open"
    /\ socks = <<>>
    /\ frames = <<>>
    /\ wire = <<>>
    /\ received = <<>>
    /\ tresult = NoResult
    /\ ack = NoStatus
    /\ gate = NoStatus
    /\ outcome = NoOutcome
    /\ conc = NoConc

callVars == <<op, command, message, phase, tmsg, tread, recv_msg, peer, socks, frames,
              wire, received, tresult, ack, gate, outcome>>

(***************************************************************************)
(* __init__ (lines 21-37)                                                  *)
(***************************************************************************)
\* mutant of the kind check: only an absent kind is rejected
SupportedKindUnlessAbsent(connection_type) == connection_type # <<>>

\* the kind check of __init__ (line 26)
SupportedKind(connection_type) == connection_type \in {<<"tcpip">>, <<"gpiboe">>}

Construct(connection_type, device_ip_address, device_gpib_address) ==
    /\ pc = "new"
    /\ IF ~SupportedKind(connection_type)
       THEN /\ ctorError' = "AttributeError"
            /\ pc' = "failed"
            /\ self' = self
       ELSE IF connection_type = <<"gpiboe">> /\ device_gpib_address = <<>>
       THEN \* None >= 1 in __ValidateGpibAddress
            /\ ctorError' = "TypeError"
            /\ pc' = "failed"
            /\ self' = self
       ELSE IF connection_type = <<"gpiboe">> /\ ~ValidateGpibAddress(device_gpib_address[1])
       THEN /\ ctorError' = "ValueError"
            /\ pc' = "failed"
            /\ self' = self
       ELSE /\ self' = [connection_type |-> connection_type[1],
                        device_ip_address |-> device_ip_address,
                        device_port |-> DevicePort,
                        device_gpib_address |-> device_gpib_address,
                        message_termination_character |-> Terminator]
            /\ pc' = "idle"
            /\ ctorError' = ""
    /\ UNCHANGED <<callVars, conc>>

(***************************************************************************)
(* Entering and leaving __TcpipTransfer, and the code of write, query and  *)
(* __GpiboeTransfer that runs between two transfers                        *)
(***************************************************************************)
\* a call of __TcpipTransfer(m, rr, timeout) begins (line 87); fs is the frame history so far
StartTransfer(m, rr, ph, fs, a) ==
    /\ pc' = "socket"
    /\ phase' = ph
    /\ tmsg' = m
    /\ tread' = rr
    /\ recv_msg' = <<>>
    /\ peer' = "open"
    /\ received' = <<>>
    /\ frames' = Append(fs, <<m, rr>>)
    /\ tresult' = NoResult
    /\ ack' = a

\* write/query end: return __HandleStatus(status), or an exception escapes
CallEnds(oc, g, a) ==
    /\ pc' = "idle"
    /\ outcome' = oc
    /\ gate' = g
    /\ ack' = a
    /\ UNCHANGED <<phase, tmsg, tread, recv_msg, peer, received, frames>>

\* the running __TcpipTransfer returned status and the call ends with it
EndsAfter(status, oc, g, a) ==
    /\ tresult' = [raised |-> FALSE, status |-> status]
    /\ CallEnds(oc, g, a)

\* mutant of the Write frame: the terminator is appended to the message once more
WriteFrameTerminatedAgain(m) ==
    <<"W", "|">> \o OptIntToStr(self.device_gpib_address) \o <<"|">> \o m
        \o <<self.message_termination_character>>

\* the Write frame of __GpiboeTransfer (line 118)
WriteFrame(m) == <<"W", "|">> \o OptIntToStr(self.device_gpib_address) \o <<"|">> \o m

\* the Read frame of __GpiboeTransfer (line 129)
ReadFrame == <<"R", "|">> \o OptIntToStr(self.device_gpib_address)
                 \o <<self.message_termination_character>>

\* mutant: the Read frame is sent whenever a response is expected, whatever the ack says
SendsReadFrameIgnoringAck(gpiboe_status, read_response) == read_response

\* whether __GpiboeTransfer goes on to the Read frame (lines 125, 128)
SendsReadFrame(gpiboe_status, read_response) == gpiboe_status[1] = 0 /\ read_response

\* __GpiboeTransfer after the Write frame's transfer returned status (lines 121-139)
AfterWriteFrame(status) ==
    IF status[1] # 0
    THEN EndsAfter(status, HandleStatus(status), status, ack)
    ELSE LET p == ParseGpiboeReceiveMessage(status[2])
         IN  IF p.raised
             THEN EndsAfter(status, Raised("ValueError", <<"invalid literal for int()">>), NoStatus, ack)
             ELSE IF SendsReadFrame(p.status, op = "query")
             THEN /\ StartTransfer(ReadFrame, TRUE, "R", frames, p.status)
                  /\ UNCHANGED <<gate, outcome>>
             ELSE EndsAfter(status, HandleStatus(p.status), p.status, p.status)

\* mutant: the Read frame's result is parsed as a gateway reply whatever its status
AfterReadFrameAlwaysParsing(status) ==
    LET p == ParseGpiboeReceiveMessage(status[2])
    IN  IF p.raised
        THEN EndsAfter(status, Raised("ValueError", <<"invalid literal for int()">>), NoStatus, ack)
        ELSE EndsAfter(status, HandleStatus(p.status), p.status, ack)

\* __GpiboeTransfer after the Read frame's transfer returned status (lines 132-136)
AfterReadFrame(status) ==
    IF status[1] # 0
    THEN EndsAfter(status, HandleStatus(status), status, ack)
    ELSE LET p == ParseGpiboeReceiveMessage(status[2])
         IN  IF p.raised
             THEN EndsAfter(status, Raised("ValueError", <<"invalid literal for int()">>), NoStatus, ack)
             ELSE EndsAfter(status, HandleStatus(p.status), p.status, ack)

\* mutant: a failed transfer is attempted once more before its status is returned
TransferReturnsRetrying(status) ==
    IF status[1] # 0 /\ Len(frames) < 2
    THEN /\ StartTransfer(tmsg, tread, phase, frames, ack)
         /\ UNCHANGED <<gate, outcome>>
    ELSE CASE phase = "direct" -> EndsAfter(status, HandleStatus(status), status, ack)
           [] phase = "W" -> AfterWriteFrame(status)
           [] phase = "R" -> AfterReadFrame(status)

\* __TcpipTransfer returns status to its caller
TransferReturns(status) ==
    CASE phase = "direct" -> EndsAfter(status, HandleStatus(status), status, ack)
      [] phase = "W" -> AfterWriteFrame(status)
      [] phase = "R" -> AfterReadFrame(status)

\* an exception leaves __TcpipTransfer and, uncaught, the whole call
TransferEscapes(type, text) ==
    /\ tresult' = [raised |-> TRUE, status |-> NoStatus]
    /\ CallEnds(Raised(type, text), NoStatus, ack)

\* the payload built by the except clause for an exception with a first argument (line 112)
ErrorPayload(args) == <<ErrPrefix, args[1]>>

\* mutant: no except clause, the exception leaves __TcpipTransfer as it is
ExceptNotCaught(args) == TransferEscapes("Exception", args)

\* the except clause (lines 110-112) for an exception whose args is the given tuple
Except(args) ==
    IF args = <<>>
    THEN \* err.args[0] raises IndexError inside the handler
         TransferEscapes("IndexError", <<"tuple index out of range">>)
    ELSE TransferReturns(<<TransportFailure, ErrorPayload(args)>>)

(***************************************************************************)
(* write (lines 57-67) and query (lines 71-81) up to the first transfer    *)
(***************************************************************************)
\* mutant of write/query: the terminator test is written as an assignment, so the call
\* takes the message's last character as the connection's terminator
CallAdoptingLastCharacter(o, m) ==
    /\ pc = "idle"
    /\ op' = o
    /\ command' = m
    /\ socks' = <<>>
    /\ wire' = <<>>
    /\ UNCHANGED <<ctorError, conc>>
    /\ IF m = <<>>
       THEN /\ message' = <<>>
            /\ self' = self
            /\ pc' = "idle"
            /\ outcome' = Raised("IndexError", <<IndexErrorText>>)
            /\ gate' = NoStatus
            /\ ack' = NoStatus
            /\ frames' = <<>>
            /\ tresult' = NoResult
            /\ phase' = ""
            /\ tmsg' = <<>>
            /\ tread' = FALSE
            /\ recv_msg' = <<>>
            /\ received' = <<>>
            /\ peer' = "open"
       ELSE /\ self' = [self EXCEPT !.message_termination_character = Last(m)]
            /\ message' = m
            /\ gate' = NoStatus
            /\ outcome' = NoOutcome
            /\ IF self.connection_type = "gpiboe"
               THEN StartTransfer(WriteFrame(m), TRUE, "W", <<>>, NoStatus)
               ELSE StartTransfer(m, o = "query", "direct", <<>>, NoStatus)

Call(o, m) ==
    /\ pc = "idle"
    /\ op' = o
    /\ command' = m
    /\ socks' = <<>>
    /\ wire' = <<>>
    /\ UNCHANGED <<self, ctorError, conc>>
    /\ IF m = <<>>
       THEN \* message[-1] on an empty str
            /\ message' = <<>>
            /\ pc' = "idle"
            /\ outcome' = Raised("IndexError", <<IndexErrorText>>)
            /\ gate' = NoStatus
            /\ ack' = NoStatus
            /\ frames' = <<>>
            /\ tresult' = NoResult
            /\ phase' = ""
            /\ tmsg' = <<>>
            /\ tread' = FALSE
            /\ recv_msg' = <<>>
            /\ received' = <<>>
            /\ peer' = "open"
       ELSE LET t == Terminate(m, self.message_termination_character)
            IN  /\ message' = t
                /\ gate' = NoStatus
                /\ outcome' = NoOutcome
                /\ IF self.connection_type = "gpiboe"
                   THEN StartTransfer(WriteFrame(t), TRUE, "W", <<>>, NoStatus)
                   ELSE StartTransfer(t, o = "query", "direct", <<>>, NoStatus)

Write == \E m \in Commands : Call("write", m)

Query == \E m \in Commands : Call("query", m)

(***************************************************************************)
(* __TcpipTransfer (lines 87-112), one action per socket operation         *)
(***************************************************************************)
cfgVars == <<self, ctorError, op, command, message, conc>>

\* the chunks a peer may deliver to one recv: non-empty, within the reply bound
Chunks == {c \in SeqsUpTo(ReplyBytes, MaxReply) : c # <<>> /\ Len(received) + Len(c) <= MaxReply}

\* socket.socket(...) and settimeout (lines 90-91)
Socket ==
    /\ pc = "socket"
    /\ UNCHANGED <<cfgVars, wire>>
    /\ \/ /\ socks' = Append(socks, "open")
          /\ pc' = "connect"
          /\ UNCHANGED <<phase, tmsg, tread, recv_msg, peer, received, frames, tresult,
                         ack, gate, outcome>>
       \/ /\ socks' = socks
          /\ \E e \in ExcArgs : Except(e)

\* connect((device_ip_address, device_port)) (line 92)
Connect ==
    /\ pc = "connect"
    /\ UNCHANGED <<cfgVars, wire, socks>>
    /\ IF self.device_ip_address = <<>>
       THEN \* a host of None is a TypeError
            Except(<<"str, bytes or bytearray expected, not NoneType">>)
       ELSE \/ /\ pc' = "sendall"
               /\ UNCHANGED <<phase, tmsg, tread, recv_msg, peer, received, frames,
                              tresult, ack, gate, outcome>>
            \/ \E e \in ExcArgs : Except(e)

\* sendall(message.encode()) and recv_msg = '' (lines 94-98)
SendAll ==
    /\ pc = "sendall"
    /\ UNCHANGED <<cfgVars, socks>>
    /\ \/ /\ wire' = Append(wire, Encode(tmsg))
          /\ recv_msg' = <<>>
          /\ pc' = IF tread THEN "recv" ELSE "shutdown"
          /\ UNCHANGED <<phase, tmsg, tread, peer, received, frames, tresult, ack, gate,
                         outcome>>
       \/ /\ wire' = wire
          /\ \E e \in ExcArgs : Except(e)

\* recv(4096) and recv_msg += decode (lines 100-101)
Recv ==
    /\ pc = "recv"
    /\ UNCHANGED <<cfgVars, wire, socks>>
    /\ \/ \* the peer delivers some bytes
          /\ peer = "open"
          /\ \E c \in Chunks :
                /\ received' = received \o c
                /\ recv_msg' = recv_msg \o Decode(c)
          /\ pc' = "check"
          /\ UNCHANGED <<phase, tmsg, tread, peer, frames, tresult, ack, gate, outcome>>
       \/ \* the peer has closed its side: recv returns b''
          /\ peer' = "closed"
          /\ recv_msg' = recv_msg \o Decode(<<>>)
          /\ pc' = "check"
          /\ UNCHANGED <<phase, tmsg, tread, received, frames, tresult, ack, gate, outcome>>
       \/ \* timeout or reset
          /\ peer = "open"
          /\ \E e \in ExcArgs : Except(e)

\* the loop's exit test recv_msg[-1] == terminator (lines 102-103)
ReadComplete(buf, term) == Last(buf) = term

Check ==
    /\ pc = "check"
    /\ UNCHANGED <<cfgVars, wire, socks>>
    /\ IF recv_msg = <<>>
       THEN Except(<<IndexErrorText>>)
       ELSE /\ pc' = IF ReadComplete(recv_msg, self.message_termination_character)
                     THEN "shutdown" ELSE "recv"
            /\ UNCHANGED <<phase, tmsg, tread, recv_msg, peer, received, frames, tresult,
                           ack, gate, outcome>>

\* shutdown(SHUT_RDWR) (line 105)
Shutdown ==
    /\ pc = "shutdown"
    /\ UNCHANGED <<cfgVars, wire, socks>>
    /\ \/ /\ pc' = "close"
          /\ UNCHANGED <<phase, tmsg, tread, recv_msg, peer, received, frames, tresult,
                         ack, gate, outcome>>
       \/ \E e \in ExcArgs : Except(e)

\* close() and return [0, recv_msg] (lines 106-108)
Close ==
    /\ pc = "close"
    /\ UNCHANGED <<cfgVars, wire>>
    /\ socks' = [socks EXCEPT ![Len(socks)] = "closed"]
    /\ TransferReturns(<<0, recv_msg>>)

\* the socket the running transfer holds in connection_handle, 0 if none
Held == IF pc \in {"connect", "sendall", "recv", "check", "shutdown", "close"}
        THEN Len(socks) ELSE 0

\* the runtime reclaims a socket object that no transfer refers to any more: the
\* except clause (lines 110-112) returns without closing connection_handle
Finalize ==
    /\ \E i \in 1..Len(socks) :
          /\ i # Held
          /\ socks[i] = "open"
          /\ socks' = [socks EXCEPT ![i] = "closed"]
    /\ UNCHANGED <<pc, cfgVars, phase, tmsg, tread, recv_msg, peer, received, frames, wire,
                   tresult, ack, gate, outcome>>

Next ==
    \/ \E k \in Kinds, ip \in IpAddresses, g \in GpibAddresses : Construct(k, ip, g)
    \/ Write
    \/ Query
    \/ Socket
    \/ Connect
    \/ SendAll
    \/ Recv
    \/ Check
    \/ Shutdown
    \/ Close
    \/ Finalize

Spec == Init /\ [][Next]_vars

\* every step of a transfer in progress is eventually taken: each blocking socket
\* operation completes or fails when the timeout fires (settimeout, line 91)
FairSpec ==
    /\ Spec
    /\ WF_vars(Socket) /\ WF_vars(Connect) /\ WF_vars(SendAll) /\ WF_vars(Recv)
    /\ WF_vars(Check) /\ WF_vars(Shutdown) /\ WF_vars(Close)

(***************************************************************************)
(* Properties                                                              *)
(***************************************************************************)
Gateway == self.connection_type = "gpiboe"
Direct == self.connection_type = "tcpip"
CallStarted == message # <<>>
Finished == pc = "idle" /\ outcome.kind # "none"

IsSuffix(t, u) == Len(t) <= Len(u) /\ SubSeq(u, Len(u) - Len(t) + 1, Len(u)) = t

\* C1: in a gateway-framed transfer the frames handed to the direct transport are one
\* Write frame first, always with a response expected, then at most one Read frame; the
\* Read frame exists only if a response is expected and the Write frame's acknowledgement
\* parsed to status 0; what is sent on the wire follows the same order.
GatewayFrameSequence ==
    (Gateway /\ CallStarted) =>
        /\ Len(frames) \in {1, 2}
        /\ frames[1][1][1] = "W"
        /\ frames[1][2] = TRUE
        /\ Len(frames) = 2 =>
              /\ frames[2][1][1] = "R"
              /\ op = "query"
              /\ ack # NoStatus
              /\ ack[1] = 0
              /\ Len(wire) >= 1
        /\ Len(wire) <= Len(frames)
        /\ \A i \in 1..Len(wire) : wire[i] = Encode(frames[i][1])

\* C1 witness: a gateway query that sent the Write frame and then the Read frame and returned
GatewayQueryBothFramesSent ==
    /\ Gateway /\ Finished /\ op = "query"
    /\ Len(wire) = 2 /\ Chr(wire[1][1]) = "W" /\ Chr(wire[2][1]) = "R"
    /\ outcome.kind = "return"

\* the text of the Write frame's acknowledgement, when the call ended on it with status 0
HasAck == Gateway /\ CallStarted /\ phase = "W" /\ tresult # NoResult /\ ~tresult.raised
              /\ tresult.status[1] = 0
AckParts == SplitFirstBar(tresult.status[2])
AckCode == PyInt(AckParts[1])
AckRemainder == IF Len(AckParts) > 1 THEN AckParts[2] ELSE <<>>

\* C2: when the Write frame's acknowledgement parses to a non-zero status, no Read frame
\* is sent and the transfer's result is that status code with the acknowledgement's
\* remainder text, unchanged.
NonZeroAckReturnedVerbatim ==
    /\ (HasAck /\ AckCode.ok /\ AckCode.val # 0) =>
          /\ pc = "idle"
          /\ Len(frames) = 1
          /\ Len(wire) = 1
          /\ gate = <<AckCode.val, AckRemainder>>
    /\ (Gateway /\ CallStarted /\ ack # NoStatus /\ ack[1] # 0) =>
          /\ pc = "idle"
          /\ Len(frames) = 1
          /\ HasAck
          /\ gate = ack

\* C2 witness: a query whose Write frame was acknowledged with a non-zero status and a
\* non-empty remainder
NonZeroAckOnQuery ==
    /\ HasAck /\ op = "query" /\ Finished
    /\ AckCode.ok /\ AckCode.val # 0 /\ AckRemainder # <<>>
    /\ outcome.type = "ConnectionError"

\* the received text up to and including its first terminator
RECURSIVE UpToFirstTerminator(_)
UpToFirstTerminator(t) ==
    IF t = <<>> THEN <<>>
    ELSE IF t[1] = Terminator THEN <<t[1]>>
    ELSE <<t[1]>> \o UpToFirstTerminator(Tail(t))

\* C3 (as claimed): a successful direct query returns the received bytes up to and
\* including the first terminator and nothing after it, however they were split.
DirectQueryReturnsFirstLine ==
    (Direct /\ Finished /\ op = "query" /\ outcome.kind = "return") =>
        outcome.status[2] = UpToFirstTerminator(Decode(received))

\* C4 (as claimed): every exception in the direct transport becomes a result with
\* statusCode -1 and a payload containing "ERROR"; none escapes.
DirectTransferNeverRaises ==
    tresult # NoResult =>
        /\ ~tresult.raised
        /\ tresult.status[1] # 0 =>
              /\ tresult.status[1] = TransportFailure
              /\ tresult.status[2] # <<>>
              /\ tresult.status[2][1] = ErrPrefix

\* C5 (as claimed): when no call is in progress no socket opened by the client is open.
NoSocketOpenWhenIdle ==
    pc = "idle" => \A i \in 1..Len(socks) : socks[i] = "closed"

\* C6 (as claimed): the gateway transport returns a structured result for every reply,
\* so a call whose direct transfers all returned ends in a return or in the gate's failure.
GatewayTransferNeverRaises ==
    (Finished /\ frames # <<>> /\ tresult # NoResult /\ ~tresult.raised) =>
        (outcome.kind = "raise" => outcome.type = "ConnectionError")

OnlyConnectionErrorEscapes ==
    (Finished /\ outcome.kind = "raise") => outcome.type = "ConnectionError"

\* C9 (as claimed): every call that has begun eventually ends.
InCall == pc \in {"socket", "connect", "sendall", "recv", "check", "shutdown", "close"}
EveryCallTerminates == InCall ~> (pc = "idle")

\* C10: the message handed to the transport is the command itself when it ends with the
\* terminator and the command plus one terminator otherwise.
TerminatedOnce ==
    (pc # "new" /\ command # <<>>) =>
        /\ Last(command) = Terminator => message = command
        /\ Last(command) # Terminator => message = command \o <<Terminator>>
        /\ Last(message) = Terminator
        /\ Direct => frames[1][1] = message
        /\ Gateway => IsSuffix(<<"|">> \o message, frames[1][1])
        /\ Len(wire) >= 1 => IsSuffix(Encode(message), wire[1])

\* C10 witness: a command that already ended with the terminator was sent as it is
TerminatedCommandSent ==
    /\ command # <<>> /\ Last(command) = Terminator /\ message = command
    /\ Len(wire) >= 1 /\ wire[1] = Encode(command)

(***************************************************************************)
(* Gateway reply parsing on its own: a gateway transfer that has received  *)
(* a complete reply of up to MaxText characters and is about to return it  *)
(***************************************************************************)
ReplyTexts == {t \in SeqsUpTo({Chr(b) : b \in ReplyBytes}, MaxText) :
                  t # <<>> /\ Last(t) = Terminator}

ParseInit ==
    /\ pc = "close"
    /\ self = [connection_type |-> "gpiboe", device_ip_address |-> <<"host">>,
               device_port |-> DevicePort, device_gpib_address |-> <<MinGpibAddress>>,
               message_termination_character |-> Terminator]
    /\ ctorError = ""
    /\ command = <<"a">>
    /\ message = <<"a", Terminator>>
    /\ \/ /\ op = "write"
          /\ phase = "W"
          /\ tmsg = WriteFrame(message)
          /\ frames = <<<<WriteFrame(message), TRUE>>>>
          /\ socks = <<"open">>
          /\ ack = NoStatus
       \/ /\ op = "query"
          /\ phase = "R"
          /\ tmsg = ReadFrame
          /\ frames = <<<<WriteFrame(message), TRUE>>, <<ReadFrame, TRUE>>>>
          /\ socks = <<"closed", "open">>
          /\ ack = <<0, <<>>>>
    /\ wire = [i \in 1..Len(frames) |-> Encode(frames[i][1])]
    /\ tread = TRUE
    /\ recv_msg \in ReplyTexts
    /\ received = Encode(recv_msg)
    /\ peer = "open"
    /\ tresult = NoResult
    /\ gate = NoStatus
    /\ outcome = NoOutcome
    /\ conc = NoConc

ParseNext == Close

ParseSpec == ParseInit /\ [][ParseNext]_vars

\* the position of the first '|' of a text, 0 if it has none
FirstBar(t) == IF \E i \in 1..Len(t) : t[i] = "|"
               THEN CHOOSE i \in 1..Len(t) : t[i] = "|" /\ \A j \in 1..(i - 1) : t[j] # "|"
               ELSE 0
\* the reply a finished gateway transfer parsed
ParsedReply == Gateway /\ Finished /\ tresult # NoResult /\ ~tresult.raised
                  /\ tresult.status[1] = 0
ReplyText == tresult.status[2]
ReplyPrefix == IF FirstBar(ReplyText) = 0 THEN ReplyText
               ELSE SubSeq(ReplyText, 1, FirstBar(ReplyText) - 1)

\* C11: a gateway reply whose text before its first '|' is an integer n parses to status
\* n and everything after that first '|' (later '|' kept); a reply without '|' parses to
\* the integer value of the whole reply and the empty payload.
ParseSplitsOnFirstBar ==
    (ParsedReply /\ PyInt(ReplyPrefix).ok) =>
        /\ gate # NoStatus
        /\ gate[1] = PyInt(ReplyPrefix).val
        /\ FirstBar(ReplyText) = 0 => gate[2] = <<>>
        /\ FirstBar(ReplyText) > 0 =>
              /\ Len(gate[2]) = Len(ReplyText) - FirstBar(ReplyText)
              /\ \A i \in 1..Len(gate[2]) : gate[2][i] = ReplyText[FirstBar(ReplyText) + i]
        /\ ReplyText = <<"0", "|", "a", Terminator>> => gate = <<0, <<"a", Terminator>>>>
        /\ ReplyText = <<"0", Terminator>> => gate = <<0, <<>>>>

\* C11 witness: a reply with a second '|' was parsed and the second '|' is in the payload
ParsedReplyWithSecondBar ==
    /\ ParsedReply /\ PyInt(ReplyPrefix).ok
    /\ FirstBar(ReplyText) > 0
    /\ \E i \in (FirstBar(ReplyText) + 1)..Len(ReplyText) : ReplyText[i] = "|"
    /\ \E i \in 1..Len(gate[2]) : gate[2][i] = "|"

GpibAddressValidated ==
    [][\A ip \in IpAddresses, g \in GpibAddresses :
          Construct(<<"gpiboe">>, ip, g) =>
              IF g # <<>> /\ g[1] >= 1 /\ g[1] <= 30
              THEN pc' = "idle" /\ ctorError' = "" /\ self'.device_gpib_address = g
              ELSE pc' = "failed" /\ ctorError' = "ValueError" /\ self' = NoObject]_vars

\* the decimal text of the GPIB addresses a gateway connection is constructed with
AddressText == IF self.device_gpib_address = <<1>> THEN <<"1">>
               ELSE IF self.device_gpib_address = <<30>> THEN <<"3", "0">>
               ELSE <<"?">>
\* the command with the terminator once
CommandLine == IF Last(command) = Terminator THEN command ELSE command \o <<Terminator>>

\* C14: on a gateway connection with address a, write(c) and query(c) send first exactly
\* "W|" a "|" c terminator, the Read frame of a query is exactly "R|" a terminator, and
\* a write acknowledged with "0|" terminator returns success.
GatewayFramesExact ==
    (Gateway /\ CallStarted) =>
        /\ frames[1][1] = <<"W", "|">> \o AddressText \o <<"|">> \o CommandLine
        /\ Len(wire) >= 1 => wire[1] = Encode(<<"W", "|">> \o AddressText \o <<"|">> \o CommandLine)
        /\ Len(frames) = 2 => frames[2][1] = <<"R", "|">> \o AddressText \o <<Terminator>>
        /\ Len(wire) = 2 => wire[2] = Encode(<<"R", "|">> \o AddressText \o <<Terminator>>)
        /\ (op = "write" /\ pc = "idle" /\ tresult = [raised |-> FALSE,
                status |-> <<0, <<"0", "|", Terminator>>>>]) =>
              /\ outcome.kind = "return"
              /\ Len(wire) = 1

\* C14 witness: write("a") to address 30 sent "W|30|a\n", was acknowledged with "0|\n"
\* and returned
GatewayWriteAcknowledged ==
    /\ Gateway /\ op = "write" /\ Finished /\ command = <<"a">>
    /\ self.device_gpib_address = <<30>>
    /\ wire = <<<<87, 124, 51, 48, 124, 97, 10>>>>
    /\ received = <<48, 124, 10>>
    /\ outcome.kind = "return"

\* the latest direct transfer returned a status list with a non-zero code
TransferFailed == tresult # NoResult /\ ~tresult.raised /\ tresult.status[1] # 0

\* C15: when the direct transfer of the Write frame or of the Read frame returns a
\* non-zero status, the gateway transfer returns that status list unchanged, without
\* parsing it, and sends no further frame.
TransportFailurePropagated ==
    (Gateway /\ CallStarted /\ TransferFailed) =>
        /\ pc = "idle"
        /\ gate = tresult.status
        /\ outcome.kind = "raise" /\ outcome.type = "ConnectionError"
        /\ outcome.text = <<"ERROR: ">> \o IntToStr(tresult.status[1]) \o <<", ">>
                              \o tresult.status[2]
        /\ phase = "W" => (Len(frames) = 1 /\ ack = NoStatus)
        /\ phase = "R" => Len(frames) = 2

\* C15 witness: the Read frame's transfer failed after the Write frame was acknowledged
ReadFrameTransferFailed ==
    /\ Gateway /\ Finished /\ phase = "R" /\ TransferFailed
    /\ tresult.status[1] = TransportFailure
    /\ Len(wire) = 2

\* C16: when a response is expected and the peer closes after sending nothing, the
\* direct transfer returns status -1 with a message and the call raises the gate's
\* ConnectionError.
EmptyReplyIsTransportFailure ==
    (pc = "idle" /\ CallStarted /\ tread /\ peer = "closed" /\ received = <<>>) =>
        /\ tresult = [raised |-> FALSE,
                      status |-> <<TransportFailure, <<ErrPrefix, IndexErrorText>>>>]
        /\ outcome.kind = "raise" /\ outcome.type = "ConnectionError"
        /\ gate = tresult.status

\* C16 witness: a direct query whose peer closed without sending a byte has ended
DirectQueryEmptyReply ==
    /\ Direct /\ op = "query" /\ Finished /\ Len(wire) = 1
    /\ peer = "closed" /\ received = <<>> /\ recv_msg = <<>>

seqVars == <<pc, self, ctorError, op, command, message, phase, tmsg, tread, recv_msg,
             peer, socks, frames, wire, received, tresult, ack, gate, outcome>>

ConcInit ==
    /\ pc = "idle"
    /\ \E k \in {"tcpip", "gpiboe"} :
          self = [connection_type |-> k, device_ip_address |-> <<"host">>,
                  device_port |-> DevicePort, device_gpib_address |-> <<MinGpibAddress>>,
                  message_termination_character |-> Terminator]
    /\ ctorError = ""
    /\ op = ""
    /\ command = <<>>
    /\ message = <<>>
    /\ phase = ""
    /\ tmsg = <<>>
    /\ tread = FALSE
    /\ recv_msg = <<>>
    /\ peer = "open"
    /\ socks = <<>>
    /\ frames = <<>>
    /\ wire = <<>>
    /\ received = <<>>
    /\ tresult = NoResult
    /\ ack = NoStatus
    /\ gate = NoStatus
    /\ outcome = NoOutcome
    /\ conc = NoConc

\* mutant: the handle is kept in an attribute of the shared object, so every thread
\* sees the socket created last
HandleInSharedAttribute(t) == Len(conc.table)

\* connection_handle as thread t's transfer sees it (line 90: a local variable)
Handle(t) == conc.handle[t]

\* thread t operates on the socket its connection_handle names
Used(t) == [conc.table EXCEPT ![Handle(t)].users = @ \cup {t}]

\* write or query of thread t up to its first transfer (lines 57-65, 71-79)
TCall(t) ==
    /\ conc.pcs[t] = "idle"
    /\ \E o \in {"write", "query"} :
          conc' = [conc EXCEPT !.pcs[t] = "socket", !.op[t] = o,
                               !.phase[t] = IF self.connection_type = "gpiboe"
                                            THEN "W" ELSE "direct"]
    /\ UNCHANGED seqVars

\* the except clause of thread t's transfer: the call ends, the local handle is gone
TFails(t, table) ==
    conc' = [conc EXCEPT !.pcs[t] = "idle", !.handle[t] = 0, !.table = table]

\* socket.socket(...) of thread t (lines 90-91)
TSocket(t) ==
    /\ conc.pcs[t] = "socket"
    /\ Len(conc.table) < MaxSockets
    /\ \/ conc' = [conc EXCEPT !.pcs[t] = "connect",
                               !.handle[t] = Len(conc.table) + 1,
                               !.table = Append(@, [owner |-> t, state |-> "open",
                                                    users |-> {}])]
       \/ TFails(t, conc.table)
    /\ UNCHANGED seqVars

\* connect, sendall, recv and shutdown of thread t on its handle (lines 92-105)
TStep(t, from, to) ==
    /\ conc.pcs[t] = from
    /\ \/ conc' = [conc EXCEPT !.pcs[t] = to, !.table = Used(t)]
       \/ TFails(t, Used(t))
    /\ UNCHANGED seqVars

TConnect(t) == TStep(t, "connect", "sendall")

\* read_response of thread t's transfer: always for a frame, for a query otherwise
TReads(t) == conc.phase[t] # "direct" \/ conc.op[t] = "query"

TSendAll(t) ==
    \/ TReads(t) /\ TStep(t, "sendall", "recv")
    \/ ~TReads(t) /\ TStep(t, "sendall", "shutdown")

\* one recv of the loop: the reply is complete, or the loop goes round (lines 99-103)
TRecv(t) ==
    \/ TStep(t, "recv", "shutdown")
    \/ TStep(t, "recv", "recv")

TShutdown(t) == TStep(t, "shutdown", "close")

\* close() and return of thread t's transfer (lines 106-108), then the caller: a
\* gateway query goes on to the Read frame when the acknowledgement allows (line 128)
TClose(t) ==
    /\ conc.pcs[t] = "close"
    /\ LET closed == [Used(t) EXCEPT ![Handle(t)].state = "closed"]
       IN  \/ conc' = [conc EXCEPT !.pcs[t] = "idle", !.handle[t] = 0, !.table = closed]
           \/ /\ conc.phase[t] = "W" /\ conc.op[t] = "query"
              /\ conc' = [conc EXCEPT !.pcs[t] = "socket", !.phase[t] = "R",
                                      !.handle[t] = 0, !.table = closed]
    /\ UNCHANGED seqVars

ConcNext ==
    \E t \in Threads :
        \/ TCall(t)
        \/ TSocket(t)
        \/ TConnect(t)
        \/ TSendAll(t)
        \/ TRecv(t)
        \/ TShutdown(t)
        \/ TClose(t)

ConcSpec == ConcInit /\ [][ConcNext]_vars

\* C18: in every interleaving of two concurrent calls each call connects, sends,
\* receives and closes only on sockets it opened itself.
OwnSocketsOnly ==
    /\ \A i \in 1..Len(conc.table) : conc.table[i].users \subseteq {conc.table[i].owner}
    /\ \A t \in Threads :
          conc.pcs[t] \in {"connect", "sendall", "recv", "shutdown", "close"} =>
              /\ Handle(t) \in 1..Len(conc.table)
              /\ conc.table[Handle(t)].owner = t
              /\ conc.table[Handle(t)].state = "open"

\* C18 witness: both threads are in the middle of a transfer, each having used its own
\* open socket
BothThreadsTransferring ==
    /\ conc.pcs[1] \in {"sendall", "recv", "shutdown"}
    /\ conc.pcs[2] \in {"sendall", "recv", "shutdown"}
    /\ Handle(1) # Handle(2)
    /\ conc.table[Handle(1)].users = {1} /\ conc.table[Handle(2)].users = {2}

\* C19: once constructed, the connection's kind, target address, port (5025), GPIB
\* address and terminator are left as they are by every step of every call, whether the
\* call succeeds or fails.
ConfigurationUnchanged ==
    [][pc # "new" =>
          /\ self' = self
          /\ pc' # "failed" =>
                /\ self'.connection_type \in {"tcpip", "gpiboe"}
                /\ self'.device_port = 5025
                /\ self'.message_termination_character = "\n"]_vars

\* C19 witness: a second call has ended in a failure on a gateway connection whose
\* attributes are those given at construction
ConfigurationAfterFailedCall ==
    /\ Gateway /\ Finished /\ outcome.kind = "raise" /\ Len(wire) >= 1
    /\ self = [connection_type |-> "gpiboe", device_ip_address |-> <<"host">>,
               device_port |-> 5025, device_gpib_address |-> <<30>>,
               message_termination_character |-> "\n"]

====
